---- MODULE Spec2Model ----
(***************************************************************************)
(* Phone-line contracts of contract.py: the abstract Contract and its      *)
(* three billing plans (MTMContract, TermContract, PrepaidContract), with  *)
(* the driver that advances months, bills calls and cancels the line.      *)
(*                                                                         *)
(* Money.  Fixed costs are whole dollars in the source (50, 20, 300, 25,   *)
(* the prepaid balance); the per-minute rates are 0.05, 0.1 and 0.025      *)
(* dollars.  The model keeps rates in mills per minute (1 dollar = 1000    *)
(* mills), so a ledger's cost is an exact integer number of mills.         *)
(*                                                                         *)
(* Dates.  The source reads only .month and .year of a datetime.date, so a *)
(* date is the record [year, month]; the cleared start (None) is NoDate.   *)
(***************************************************************************)
EXTENDS Integers, Sequences, FiniteSets, TLC

\* ------------------------------------------------------------ constants
\* contract.py:10-24.  Fees in dollars, rates in mills per minute.
MTM_MONTHLY_FEE == 50
TERM_MONTHLY_FEE == 20
TERM_DEPOSIT == 300
TERM_MINS == 100
MTM_MINS_COST == 50
TERM_MINS_COST == 100
PREPAID_MINS_COST == 25
\* PrepaidContract.new_month: the credit floor (balance > -10) and the top-up.
PREPAID_FLOOR == 10
PREPAID_TOPUP == 25

\* ------------------------------------------------------------ bounds
\* new_month calls of one run (each binds a fresh ledger)
MaxMonths == 3
\* bill_call invocations of one run
MaxCalls == 2
\* cancel_contract invocations of one run
MaxCancels == 2

\* ------------------------------------------------------------ inputs
Date(y, m) == [year |-> y, month |-> m]
NoDate == [year |-> 0, month |-> 0]

\* the months the driver may advance to
BilledMonths ==
    { Date(2020, 1), Date(2020, 2), Date(2020, 3), Date(2021, 1), Date(2022, 1) }
\* constructor arguments (MTMContract and PrepaidContract never read start, so
\* one start date stands for all of theirs)
LineStart == Date(2020, 1)
StartDates == { Date(2020, 1), Date(2020, 2) }
EndDates == { Date(2020, 1), Date(2021, 2), Date(2022, 1) }
PrepaidAmounts == { 40, 10, 0 }
\* call durations in seconds, per plan: 0, 61 (one second into the second
\* minute), and calls of exactly 50, 80, 105 and 1300 minutes
MTMDurations == { 0, 61, 3000 }
TermDurations == { 0, 61, 3000, 4800, 6300 }
PrepaidDurations == { 0, 61, 78000 }
Durations == MTMDurations \cup TermDurations \cup PrepaidDurations

\* the driver's calendar order on (year, month)
DateBefore(a, b) ==
    \/ a.year < b.year
    \/ a.year = b.year /\ a.month < b.month

\* ------------------------------------------------------------ helpers
\* ceil(call.duration / 60.0) for a duration >= 0
CeilMinutes(d) == IF d % 60 = 0 THEN d \div 60 ELSE (d \div 60) + 1

Max(a, b) == IF a >= b THEN a ELSE b
Min(a, b) == IF a <= b THEN a ELSE b

RECURSIVE CountIn(_, _)
CountIn(x, s) ==
    IF s = <<>> THEN 0
    ELSE (IF Head(s) = x THEN 1 ELSE 0) + CountIn(x, Tail(s))

\* ------------------------------------------------------------ the ledger
\* Bill (bill.py, an external collaborator): plan label, per-minute rate,
\* fixed-cost accumulator, billed and free minute accumulators.  adds, calls
\* and ym are the driver's record of what the ledger received: the amounts
\* passed to add_fixed_cost, the duration in seconds of each call billed to
\* it, and the month the ledger was created for.
FreshBill(ym) ==
    [type |-> "", rate |-> 0, fixed |-> 0, billed |-> 0, free |-> 0,
     adds |-> <<>>, calls |-> <<>>, ym |-> ym]

SetRates(b, label, rate) == [b EXCEPT !.type = label, !.rate = rate]
AddFixedCost(b, amount) ==
    [b EXCEPT !.fixed = @ + amount, !.adds = Append(@, amount)]
AddBilledMinutes(b, n) == [b EXCEPT !.billed = @ + n]
AddFreeMinutes(b, n) == [b EXCEPT !.free = @ + n]
\* fixed costs + rate * billed minutes, in mills
GetCost(b) == b.fixed * 1000 + b.rate * b.billed
\* the driver's note of a call on the ledger it was billed to
NoteCall(b, d) == [b EXCEPT !.calls = Append(@, d)]

\* ------------------------------------------------------------ state
VARIABLES
    kind,      \* the contract's class: "MTM", "TERM" or "PREPAID"
    start,     \* Contract.start (NoDate once cancel_contract cleared it)
    end,       \* TermContract.end (NoDate for the other plans)
    deposit,   \* TermContract.deposit
    minutes,   \* TermContract.minutes
    balance,   \* PrepaidContract.balance
    bill,      \* Contract.bill: index into bills, 0 for None
    bills,     \* the Bill objects the driver created, in creation order
    lastOp,    \* the operation invoked last
    err,       \* how it ended: "none" or the exception raised
    ret,       \* the value the last cancel_contract returned (mills)
    start0,    \* the start date given to the constructor
    balance0,  \* PrepaidContract.balance before the last operation
    nCalls,    \* bill_call invocations so far
    nCancels   \* cancel_contract invocations so far

vars == <<kind, start, end, deposit, minutes, balance, bill, bills,
          lastOp, err, ret, start0, balance0, nCalls, nCancels>>

\* ret while no cancel_contract has returned a value
NoRet == -1

\* ------------------------------------------------------------ constructors
InitCommon ==
    /\ bill = 0
    /\ bills = <<>>
    /\ lastOp = "init"
    /\ err = "none"
    /\ ret = NoRet
    /\ start0 = start
    /\ balance0 = balance
    /\ nCalls = 0
    /\ nCancels = 0

\* MTMContract.__init__
MTMInit ==
    /\ kind = "MTM"
    /\ start = LineStart
    /\ end = NoDate
    /\ deposit = FALSE
    /\ minutes = 0
    /\ balance = 0

\* TermContract.__init__
TermInit ==
    /\ kind = "TERM"
    /\ start \in StartDates
    /\ end \in EndDates
    /\ deposit = FALSE
    /\ minutes = 0
    /\ balance = 0

\* PrepaidContract.__init__: self.balance = -balance
PrepaidInit ==
    /\ kind = "PREPAID"
    /\ start = LineStart
    /\ end = NoDate
    /\ deposit = FALSE
    /\ minutes = 0
    /\ \E amount \in PrepaidAmounts : balance = -amount

Init == (MTMInit \/ TermInit \/ PrepaidInit) /\ InitCommon

\* ------------------------------------------------------------ the driver
\* One new_month per calendar month in temporal order: the month advanced to
\* lies after the month of the ledger created last.
InOrder(ym) ==
    IF bills = <<>> THEN TRUE ELSE DateBefore(bills[Len(bills)].ym, ym)

CanAdvance(ym) == Len(bills) < MaxMonths /\ InOrder(ym)
CanCall == nCalls < MaxCalls
CanCancel == nCancels < MaxCancels

\* the ledger self.bill refers to
TheBill == bills[bill]

\* an operation that returns quietly when no ledger is bound
LedgerAccessGuarded(b) == "none"

\* how the first self.bill.<method>(...) of an operation ends: on None (b = 0)
\* the attribute access raises
LedgerAccess(b) == IF b = 0 THEN "AttributeError" ELSE "none"

\* ------------------------------------------------------------ MTMContract
\* MTMContract.new_month on the fresh ledger b
MTMNewBill(b) ==
    AddFixedCost(SetRates(b, "MTM", MTM_MINS_COST), MTM_MONTHLY_FEE)

MTMNewMonth(ym) ==
    /\ kind = "MTM"
    /\ CanAdvance(ym)
    /\ bills' = Append(bills, MTMNewBill(FreshBill(ym)))
    /\ bill' = Len(bills) + 1
    /\ lastOp' = "new_month"
    /\ err' = "none"
    /\ balance0' = balance
    /\ UNCHANGED <<kind, start, end, deposit, minutes, balance, ret, start0,
                   nCalls, nCancels>>

\* a bill_call that rounds the duration down to whole minutes
BilledMinutesFloor(d) == d \div 60

\* the minutes MTMContract.bill_call (and Contract.bill_call) bills
MTMBilledMinutes(d) == CeilMinutes(d)

\* bill_call of Contract, MTMContract and PrepaidContract: every minute billed.
\* With self.bill None the attribute access raises and nothing changes.
PlainBillCall(d) ==
    /\ CanCall
    /\ nCalls' = nCalls + 1
    /\ lastOp' = "bill_call"
    /\ err' = LedgerAccess(bill)
    /\ IF bill = 0
       THEN UNCHANGED bills
       ELSE bills' = [bills EXCEPT ![bill] =
                            NoteCall(AddBilledMinutes(@, MTMBilledMinutes(d)), d)]
    /\ balance0' = balance
    /\ UNCHANGED <<kind, start, end, deposit, minutes, balance, bill, ret,
                   start0, nCancels>>

MTMBillCall(d) == kind = "MTM" /\ d \in MTMDurations /\ PlainBillCall(d)

\* cancel_contract of Contract and MTMContract: start is cleared first, then
\* self.bill.get_cost() raises when no ledger is bound.
MTMCancel ==
    /\ kind = "MTM"
    /\ CanCancel
    /\ nCancels' = nCancels + 1
    /\ lastOp' = "cancel_contract"
    /\ start' = NoDate
    /\ err' = LedgerAccess(bill)
    /\ ret' = (IF bill = 0 THEN NoRet ELSE GetCost(TheBill))
    /\ balance0' = balance
    /\ UNCHANGED <<kind, end, deposit, minutes, balance, bill, bills, start0,
                   nCalls>>

\* ------------------------------------------------------------ TermContract
\* a start-month test that forgets the year
IsStartMonthAnyYear(s, ym) == s.month = ym.month

\* self.start.month == month and self.start.year == year
IsStartMonth(s, ym) == s.month = ym.month /\ s.year = ym.year

\* a release test that forgets to compare the years of a later month
DepositDueAnyYear(e, ym) ==
    \/ e.month <= ym.month
    \/ e.year < ym.year

\* (self.end.month <= month and self.end.year == year) or self.end.year < year
DepositDue(e, ym) ==
    \/ e.month <= ym.month /\ e.year = ym.year
    \/ e.year < ym.year

\* a flag recomputed by every new_month
TermDepositRecomputed(dep, s, e, ym) == ~IsStartMonth(s, ym) /\ DepositDue(e, ym)

\* self.deposit after the if / elif of new_month: untouched in the start
\* month, set once the end month is reached, never cleared
TermDeposit(dep, s, e, ym) ==
    IF IsStartMonth(s, ym) THEN dep
    ELSE IF DepositDue(e, ym) THEN TRUE ELSE dep

\* the first statements of TermContract.new_month on the fresh ledger b
TermOpenBill(b) ==
    AddFixedCost(SetRates(b, "TERM", TERM_MINS_COST), TERM_MONTHLY_FEE)

\* a new_month that does not reset the counter
TermKeepMinutes(m) == m

\* self.minutes after new_month
TermResetMinutes(m) == 0

\* TermContract.new_month.  With start cleared, self.start.month raises after
\* the ledger was set up and the counter reset, and before the ledger is bound.
TermNewMonth(ym) ==
    /\ kind = "TERM"
    /\ CanAdvance(ym)
    /\ lastOp' = "new_month"
    /\ minutes' = TermResetMinutes(minutes)
    /\ IF start = NoDate
       THEN /\ err' = "AttributeError"
            /\ bills' = Append(bills, TermOpenBill(FreshBill(ym)))
            /\ UNCHANGED <<bill, deposit>>
       ELSE /\ err' = "none"
            /\ bill' = Len(bills) + 1
            /\ bills' = Append(bills,
                  IF IsStartMonth(start, ym)
                  THEN AddFixedCost(TermOpenBill(FreshBill(ym)), TERM_DEPOSIT)
                  ELSE TermOpenBill(FreshBill(ym)))
            /\ deposit' = TermDeposit(deposit, start, end, ym)
    /\ balance0' = balance
    /\ UNCHANGED <<kind, start, end, balance, ret, start0, nCalls, nCancels>>

\* a bill_call that forgets the minutes used so far
TermBilledNoCarry(used, mins) ==
    IF used > TERM_MINS THEN mins ELSE Max(mins - TERM_MINS, 0)

\* a bill_call without the branch for an exhausted allowance
TermBilledOneBranch(used, mins) == Max(used + mins - TERM_MINS, 0)

\* the minutes TermContract.bill_call adds to the billed minutes, with used
\* = self.minutes before the call and mins = ceil(duration / 60)
TermBilled(used, mins) ==
    IF used > TERM_MINS THEN mins ELSE Max(used + mins - TERM_MINS, 0)

\* the minutes it adds to the free minutes (none in the first branch)
TermFree(used, mins) ==
    IF used > TERM_MINS THEN 0 ELSE mins - TermBilled(used, mins)

\* a counter that stops at the allowance
TermNewMinutesCapped(used, mins) == Min(used + mins, TERM_MINS)

\* self.minutes += ceil(call.duration / 60.0)
TermNewMinutes(used, mins) == used + mins

\* TermContract.bill_call.  With self.bill None the first ledger access
\* raises, before self.minutes is incremented.
TermBillCall(d) ==
    /\ kind = "TERM"
    /\ d \in TermDurations
    /\ CanCall
    /\ nCalls' = nCalls + 1
    /\ lastOp' = "bill_call"
    /\ err' = LedgerAccess(bill)
    /\ IF bill = 0
       THEN UNCHANGED <<bills, minutes>>
       ELSE /\ bills' = [bills EXCEPT ![bill] =
                  NoteCall(
                    AddFreeMinutes(
                      AddBilledMinutes(@, TermBilled(minutes, CeilMinutes(d))),
                      TermFree(minutes, CeilMinutes(d))), d)]
            /\ minutes' = TermNewMinutes(minutes, CeilMinutes(d))
    /\ balance0' = balance
    /\ UNCHANGED <<kind, start, end, deposit, balance, bill, ret, start0,
                   nCancels>>

\* TermContract.cancel_contract
TermCancel ==
    /\ kind = "TERM"
    /\ CanCancel
    /\ nCancels' = nCancels + 1
    /\ lastOp' = "cancel_contract"
    /\ start' = NoDate
    /\ err' = LedgerAccess(bill)
    /\ IF bill = 0
       THEN \* deposit is False before the first new_month: get_cost raises
            /\ ret' = NoRet
            /\ UNCHANGED bills
       ELSE /\ bills' = IF deposit
                        THEN [bills EXCEPT ![bill] = AddFixedCost(@, -TERM_DEPOSIT)]
                        ELSE bills
            /\ ret' = GetCost(bills'[bill])
    /\ balance0' = balance
    /\ UNCHANGED <<kind, end, deposit, minutes, balance, bill, start0, nCalls>>

\* ------------------------------------------------------------ PrepaidContract
\* a top-up test that includes the floor itself
NeedsTopUpInclusive(bal) == bal >= -PREPAID_FLOOR

\* self.balance > -10
NeedsTopUp(bal) == bal > -PREPAID_FLOOR

\* self.balance after new_month
PrepaidNewBalance(bal) ==
    IF NeedsTopUp(bal) THEN bal - PREPAID_TOPUP ELSE bal

\* a new_month that credits the top-up without charging for it
PrepaidNewBillNoCharge(b, bal) ==
    AddFixedCost(SetRates(b, "PREPAID", PREPAID_MINS_COST), PrepaidNewBalance(bal))

\* a new_month that adds the balance it had before the top-up
PrepaidNewBillOldBalance(b, bal) ==
    AddFixedCost(
        SetRates(IF NeedsTopUp(bal) THEN AddFixedCost(b, PREPAID_TOPUP) ELSE b,
                 "PREPAID", PREPAID_MINS_COST),
        bal)

\* PrepaidContract.new_month on the fresh ledger b, with bal = self.balance
\* before the call
PrepaidNewBill(b, bal) ==
    AddFixedCost(
        SetRates(IF NeedsTopUp(bal) THEN AddFixedCost(b, PREPAID_TOPUP) ELSE b,
                 "PREPAID", PREPAID_MINS_COST),
        PrepaidNewBalance(bal))

PrepaidNewMonth(ym) ==
    /\ kind = "PREPAID"
    /\ CanAdvance(ym)
    /\ balance' = PrepaidNewBalance(balance)
    /\ bills' = Append(bills, PrepaidNewBill(FreshBill(ym), balance))
    /\ bill' = Len(bills) + 1
    /\ lastOp' = "new_month"
    /\ err' = "none"
    /\ balance0' = balance
    /\ UNCHANGED <<kind, start, end, deposit, minutes, ret, start0, nCalls,
                   nCancels>>

PrepaidBillCall(d) ==
    kind = "PREPAID" /\ d \in PrepaidDurations /\ PlainBillCall(d)

\* a cancel_contract that pays unused credit out
PrepaidOwedSigned(cost) == cost

\* what PrepaidContract.cancel_contract returns for a ledger cost
PrepaidOwed(cost) == IF cost < 0 THEN 0 ELSE cost

PrepaidCancel ==
    /\ kind = "PREPAID"
    /\ CanCancel
    /\ nCancels' = nCancels + 1
    /\ lastOp' = "cancel_contract"
    /\ start' = NoDate
    /\ err' = LedgerAccess(bill)
    /\ ret' = (IF bill = 0 THEN NoRet ELSE PrepaidOwed(GetCost(TheBill)))
    /\ balance0' = balance
    /\ UNCHANGED <<kind, end, deposit, minutes, balance, bill, bills, start0,
                   nCalls>>

\* ------------------------------------------------------------ specification
NewMonth ==
    \E ym \in BilledMonths :
        MTMNewMonth(ym) \/ TermNewMonth(ym) \/ PrepaidNewMonth(ym)

BillCall ==
    \E d \in Durations :
        MTMBillCall(d) \/ TermBillCall(d) \/ PrepaidBillCall(d)

CancelContract == MTMCancel \/ TermCancel \/ PrepaidCancel

Next == NewMonth \/ BillCall \/ CancelContract

Spec == Init /\ [][Next]_vars

\* ------------------------------------------------------------ properties
\* every new_month so far bound its ledger: self.bill is the ledger created last
AllBound == bill = Len(bills)

\* minutes of a ledger's calls: the sum of ceil(duration / 60)
RECURSIVE UsedMinutes(_)
UsedMinutes(calls) ==
    IF calls = <<>> THEN 0
    ELSE CeilMinutes(Head(calls)) + UsedMinutes(Tail(calls))

\* a bill_call step that reached a bound ledger
BilledStep == nCalls' = nCalls + 1 /\ bill # 0
\* the duration passed to it, and what it added to the ledger
StepDuration == bills'[bill].calls[Len(bills'[bill].calls)]
StepBilled == bills'[bill].billed - bills[bill].billed
StepFree == bills'[bill].free - bills[bill].free
StepCost == GetCost(bills'[bill]) - GetCost(bills[bill])

\* C1: TermContract, within one month: with used the sum of ceil(duration/60)
\* over the calls billed to a month's ledger, the ledger's billed minutes are
\* max(0, used - 100) and its free minutes min(used, 100).
C1_TermMonthSplit ==
    (kind = "TERM" /\ AllBound) =>
        \A i \in 1..Len(bills) :
            /\ bills[i].billed = Max(0, UsedMinutes(bills[i].calls) - 100)
            /\ bills[i].free = Min(UsedMinutes(bills[i].calls), 100)

\* C1 witness: a single 105-minute call on a fresh month: 100 free, 5 billed.
C1_Witness ==
    /\ kind = "TERM"
    /\ bill # 0
    /\ TheBill.calls = <<6300>>
    /\ TheBill.free = 100
    /\ TheBill.billed = 5

\* C2 as claimed: every TermContract.bill_call adds max(0, minutes + mins - 100)
\* billed minutes and mins minus that many free minutes, whatever the counter.
C2_Claimed ==
    [][(kind = "TERM" /\ BilledStep) =>
          LET mins == CeilMinutes(StepDuration)
              billable == Max(0, minutes + mins - 100)
          IN  StepBilled = billable /\ StepFree = mins - billable]_vars

\* C2 amended: every TermContract.bill_call adds min(mins, max(0, minutes +
\* mins - 100)) billed minutes (all of the call once the counter is past 100)
\* and mins minus that many free minutes.
C2_TermCallSplit ==
    [][(kind = "TERM" /\ BilledStep) =>
          LET mins == CeilMinutes(StepDuration)
              billable == Min(mins, Max(0, minutes + mins - 100))
          IN  StepBilled = billable /\ StepFree = mins - billable]_vars

\* C2 witness: a call billed while the month's counter was already above 100.
C2_Witness ==
    /\ kind = "TERM"
    /\ lastOp = "bill_call"
    /\ bill # 0
    /\ Len(TheBill.calls) = 2
    /\ TheBill.calls[1] = 6300
    /\ TheBill.calls[2] = 61
    /\ TheBill.billed = 7
    /\ minutes = 107

\* C3 as claimed: the first cancel_contract of a TermContract subtracts the
\* deposit from the ledger exactly once if the month advanced to last has
\* reached or passed the end month/year, and not at all otherwise.
C3_Claimed ==
    (kind = "TERM" /\ lastOp = "cancel_contract" /\ nCancels = 1 /\ bill # 0) =>
        CountIn(-TERM_DEPOSIT, TheBill.adds) =
            (IF DateBefore(bills[Len(bills)].ym, end) THEN 0 ELSE 1)

\* C4: before any cancellation, the deposit is on a month's ledger exactly once
\* when that month is the start month/year and not at all otherwise; a run
\* that begins with the start month has charged it exactly once in all.
C4_DepositOnce ==
    (kind = "TERM" /\ AllBound) =>
        /\ \A i \in 1..Len(bills) :
              CountIn(TERM_DEPOSIT, bills[i].adds) =
                  (IF bills[i].ym = start0 THEN 1 ELSE 0)
        /\ (bills # <<>> /\ bills[1].ym = start0) =>
              \A i \in 2..Len(bills) : CountIn(TERM_DEPOSIT, bills[i].adds) = 0

\* C4 witness: three months advanced, the first of them the start month.
C4_Witness ==
    /\ kind = "TERM"
    /\ AllBound
    /\ Len(bills) = 3
    /\ bills[1].ym = start0
    /\ bills[1].adds = <<TERM_MONTHLY_FEE, TERM_DEPOSIT>>
    /\ bills[3].ym = Date(2022, 1)

\* the round trip: a term starting January 2020 and ending January 2022, one
\* 50-minute call in January, one 80-minute call in February, March opened
\* and the line cancelled
RoundTrip ==
    /\ kind = "TERM"
    /\ start0 = Date(2020, 1)
    /\ end = Date(2022, 1)
    /\ Len(bills) = 3
    /\ bill = 3
    /\ bills[1].ym = Date(2020, 1) /\ bills[1].calls = <<3000>>
    /\ bills[2].ym = Date(2020, 2) /\ bills[2].calls = <<4800>>
    /\ bills[3].ym = Date(2020, 3) /\ bills[3].calls = <<>>
    /\ lastOp = "cancel_contract"
    /\ nCancels = 1

\* C5 as claimed: the round trip gives January 0 billed / 50 free, February
\* 30 billed / 50 free, and a cancellation amount without a deposit refund.
C5_Claimed ==
    RoundTrip =>
        /\ bills[1].billed = 0 /\ bills[1].free = 50
        /\ bills[2].billed = 30 /\ bills[2].free = 50
        /\ CountIn(-TERM_DEPOSIT, bills[3].adds) = 0
        /\ ret = TERM_MONTHLY_FEE * 1000

\* C5 amended: the round trip gives January 0 billed / 50 free, February
\* 0 billed / 80 free, and a cancellation amount without a deposit refund.
C5_RoundTrip ==
    RoundTrip =>
        /\ bills[1].billed = 0 /\ bills[1].free = 50
        /\ bills[2].billed = 0 /\ bills[2].free = 80
        /\ CountIn(-TERM_DEPOSIT, bills[3].adds) = 0
        /\ ret = TERM_MONTHLY_FEE * 1000

\* C5 witness: the round trip has been run to its end.
C5_Witness == RoundTrip /\ err = "none" /\ deposit = FALSE

\* C6: right after a new_month that bound a fresh ledger, the ledger's total
\* cost is 50 for MTM; 20 for Term, plus 300 exactly in the start month; and
\* for Prepaid the balance after the advance, plus 25 exactly when the advance
\* applied a top-up.
C6_OpeningCost ==
    (lastOp = "new_month" /\ err = "none") =>
        GetCost(TheBill) =
            1000 * (CASE kind = "MTM" -> 50
                      [] kind = "TERM" ->
                            20 + (IF TheBill.ym = start0 THEN 300 ELSE 0)
                      [] kind = "PREPAID" ->
                            balance + (IF balance # balance0 THEN 25 ELSE 0))

\* C6 witness: a prepaid month opened with a top-up.
C6_Witness ==
    /\ kind = "PREPAID"
    /\ lastOp = "new_month"
    /\ balance0 = 0
    /\ balance = -25
    /\ GetCost(TheBill) = 0

\* C7: PrepaidContract.cancel_contract with a bound ledger returns
\* max(0, cost): 0 for a negative total cost, the total cost otherwise.
C7_PrepaidNoPayout ==
    (kind = "PREPAID" /\ lastOp = "cancel_contract" /\ err = "none") =>
        /\ ret >= 0
        /\ ret = Max(0, GetCost(TheBill))

\* C7 witness: a cancellation with unused credit on the ledger.
C7_Witness ==
    /\ kind = "PREPAID"
    /\ lastOp = "cancel_contract"
    /\ err = "none"
    /\ GetCost(TheBill) = -40000
    /\ ret = 0

\* C8 as claimed: a prepaid line opened with balance -40 is topped up in a
\* later new_month exactly when the charges of the month before had brought
\* its balance (the month's total cost) above -10.
C8_Claimed ==
    (kind = "PREPAID" /\ bills # <<>> /\ bills[1].adds = <<-40>>) =>
        \A i \in 2..Len(bills) :
            (GetCost(bills[i - 1]) > -PREPAID_FLOOR * 1000)
                <=> (PREPAID_TOPUP \in {bills[i].adds[k] : k \in 1..Len(bills[i].adds)})

\* C9 as an action property: every MTMContract.bill_call of d seconds adds the
\* n billed minutes with 60 (n - 1) < d <= 60 n, no free minutes, and n times
\* the MTM per-minute rate to the cost, whatever was billed before.
C9_MTMCall ==
    [][(kind = "MTM" /\ BilledStep) =>
          /\ 60 * StepBilled >= StepDuration
          /\ 60 * (StepBilled - 1) < StepDuration
          /\ StepFree = 0
          /\ bills'[bill].free = 0
          /\ StepCost = StepBilled * MTM_MINS_COST]_vars

\* C9 witness: a 61-second call billed as 2 minutes after an earlier call.
C9_Witness ==
    /\ kind = "MTM"
    /\ lastOp = "bill_call"
    /\ bill # 0
    /\ TheBill.calls = <<3000, 61>>
    /\ TheBill.billed = 52
    /\ GetCost(TheBill) = 52600

\* C10 as claimed: once a cancel_contract on a bound ledger has cleared start,
\* every operation (every step of the driver from such a state) fails and
\* changes neither the contract nor any ledger.
C10_Claimed ==
    [][(start = NoDate /\ bill # 0) =>
          /\ err' # "none"
          /\ UNCHANGED <<start, deposit, minutes, balance, bill, bills>>]_vars

\* the steps of the three operations
CallStep == nCalls' = nCalls + 1
CancelStep == nCancels' = nCancels + 1
MonthStep == Len(bills') = Len(bills) + 1
\* the month a new_month step advanced to
StepMonth == bills'[Len(bills')].ym
\* calendar order as one comparison of month numbers
MonthNumber(ym) == 12 * ym.year + ym.month

\* C11: for every plan, a bill_call or cancel_contract invoked while no ledger
\* is bound ends in an exception: it is no silent no-op and returns no amount.
C11_NoLedgerFails ==
    [][(bill = 0 /\ (CallStep \/ CancelStep)) =>
          /\ err' = "AttributeError"
          /\ ret' = NoRet
          /\ bills' = bills]_vars

\* C11 witness: a bill_call before the first new_month has raised.
C11_Witness ==
    /\ bill = 0
    /\ bills = <<>>
    /\ lastOp = "bill_call"
    /\ err = "AttributeError"
    /\ nCancels = 0

\* C12 as claimed: a bill_call or cancel_contract that fails because no ledger
\* is bound leaves start, the minute counter, the deposit flag and the balance
\* as they were.
C12_Claimed ==
    [][(bill = 0 /\ (CallStep \/ CancelStep) /\ err' = "AttributeError") =>
          UNCHANGED <<start, minutes, deposit, balance>>]_vars

\* C13: PrepaidContract.balance is left unchanged by bill_call and
\* cancel_contract; new_month leaves it unchanged when it is at most -10 and
\* lowers it by exactly 25 when it is above -10; it never increases.
C13_BalanceFrame ==
    [][kind = "PREPAID" =>
          /\ balance' <= balance
          /\ balance' = (IF MonthStep /\ balance > -10 THEN balance - 25
                         ELSE balance)]_vars

\* C13 witness: a second month opened at a balance of exactly -10, after
\* minutes were billed in the first: no top-up.
C13_Witness ==
    /\ kind = "PREPAID"
    /\ lastOp = "new_month"
    /\ Len(bills) = 2
    /\ bills[1].billed = 1300
    /\ balance0 = -10
    /\ balance = -10

\* C14: TermContract.deposit, once true, is true in every later state, and it
\* changes only in new_month.
C14_DepositMonotonic ==
    [][kind = "TERM" =>
          /\ deposit => deposit'
          /\ deposit' # deposit => MonthStep]_vars

\* C14 witness: the flag is still set after later months, calls and
\* cancellations.
C14_Witness ==
    /\ kind = "TERM"
    /\ deposit
    /\ Len(bills) = 3
    /\ bills[1].ym = Date(2020, 1)
    /\ start0 = Date(2020, 2)
    /\ nCalls = 2
    /\ nCancels = 2

\* C15: every TermContract.new_month sets the minute counter to 0; a bill_call
\* on a bound ledger raises it by exactly ceil(duration / 60); no other step
\* changes it.
C15_MinuteCounter ==
    [][kind = "TERM" =>
          IF MonthStep THEN minutes' = 0
          ELSE IF CallStep /\ bill # 0
               THEN /\ minutes' >= minutes
                    /\ 60 * (minutes' - minutes) >= StepDuration
                    /\ 60 * (minutes' - minutes - 1) < StepDuration
               ELSE minutes' = minutes]_vars

\* C15 witness: a month opened with the counter at 0 after a month in which
\* 105 minutes were used.
C15_Witness ==
    /\ kind = "TERM"
    /\ lastOp = "new_month"
    /\ err = "none"
    /\ Len(bills) = 2
    /\ bills[1].calls = <<6300>>
    /\ minutes = 0

\* C16: a TermContract.new_month for a month other than the start month/year
\* leaves the flag set exactly when it was set before or the billed month is
\* at or after the end month in calendar order; a new_month for the start
\* month/year does not change the flag.
C16_ReleaseCondition ==
    [][(kind = "TERM" /\ MonthStep /\ start # NoDate) =>
          IF StepMonth = start THEN deposit' = deposit
          ELSE deposit' =
                  (deposit \/ MonthNumber(StepMonth) >= MonthNumber(end))]_vars

\* C16 witness: March 2020 billed for a term ending February 2021 (a later
\* month of an earlier year): the flag is not set.
C16_Witness ==
    /\ kind = "TERM"
    /\ end = Date(2021, 2)
    /\ lastOp = "new_month"
    /\ Len(bills) = 1
    /\ bills[1].ym = Date(2020, 3)
    /\ deposit = FALSE

\* C17: the fixed costs PrepaidContract.new_month adds to a fresh ledger total
\* the balance held before the call: that balance alone without a top-up, 25
\* and then the balance less 25 with one.
C17_TopUpNeutral ==
    (kind = "PREPAID" /\ lastOp = "new_month") =>
        /\ TheBill.fixed = balance0
        /\ GetCost(TheBill) = 1000 * balance0
        /\ TheBill.adds = (IF balance = balance0 THEN <<balance0>>
                           ELSE <<25, balance0 - 25>>)

\* C17 witness: a second month, opened without a top-up after the first was
\* opened with one.
C17_Witness ==
    /\ kind = "PREPAID"
    /\ lastOp = "new_month"
    /\ Len(bills) = 2
    /\ bills[1].adds = <<25, -25>>
    /\ bills[2].adds = <<-25>>
    /\ balance = -25

\* C18 as claimed: after a cancel_contract that returned, start is cleared and
\* the contract holds no ledger.
C18_Claimed ==
    (lastOp = "cancel_contract" /\ err = "none") =>
        (start = NoDate /\ bill = 0)

====
